---------------------------- MODULE Spec2Model ----------------------------
(***************************************************************************)
(* Model of extract_sections, the messy-algae CSV parser, in its two       *)
(* implementations:                                                        *)
(*   "extract" : src/claire_alga/Modules/extract.py  (used by appv3.py)    *)
(*   "appv2"   : src/archive/appv2.py                (archived version)    *)
(*                                                                         *)
(* A cell is a Python str, modelled as a sequence of one-character         *)
(* strings, so that lower(), strip(), == and the substring test `in` are   *)
(* computed character by character.  Row and cell indices are Python's     *)
(* 0-based indices; Row(rows, i) and Cell(row, j) read them.               *)
(***************************************************************************)
EXTENDS Integers, Sequences, FiniteSets, TLC

(***************************************************************************)
(* Python values                                                           *)
(***************************************************************************)
\* Python's None as an index value (idx_table1_header = None, ...).
None == -1

\* Python's None as a cell / as a header_map entry: no str has this shape.
NoneCell == <<"None">>

\* The empty str "".
EmptyStr == <<>>

Min(a, b) == IF a < b THEN a ELSE b

Max(a, b) == IF a > b THEN a ELSE b

Row(rows, idx) == rows[idx + 1]

Cell(row, j) == row[j + 1]

\* range(len(s)) as a set of 0-based indices
Indices(s) == 0 .. (Len(s) - 1)

(***************************************************************************)
(* str methods                                                             *)
(***************************************************************************)
Whitespace == {" ", "\t", "\n", "\r"}

LowerChar(ch) ==
    CASE ch = "A" -> "a" [] ch = "B" -> "b" [] ch = "C" -> "c" [] ch = "D" -> "d"
      [] ch = "E" -> "e" [] ch = "F" -> "f" [] ch = "G" -> "g" [] ch = "H" -> "h"
      [] ch = "I" -> "i" [] ch = "J" -> "j" [] ch = "K" -> "k" [] ch = "L" -> "l"
      [] ch = "M" -> "m" [] ch = "N" -> "n" [] ch = "O" -> "o" [] ch = "P" -> "p"
      [] ch = "Q" -> "q" [] ch = "R" -> "r" [] ch = "S" -> "s" [] ch = "T" -> "t"
      [] ch = "U" -> "u" [] ch = "V" -> "v" [] ch = "W" -> "w" [] ch = "X" -> "x"
      [] ch = "Y" -> "y" [] ch = "Z" -> "z" [] OTHER -> ch

\* str.lower()
Lower(c) == [n \in 1 .. Len(c) |-> LowerChar(c[n])]

\* str.strip(): drop leading and trailing whitespace
RECURSIVE LStrip(_)
LStrip(c) ==
    IF c # <<>> /\ Head(c) \in Whitespace THEN LStrip(Tail(c)) ELSE c

RECURSIVE RStrip(_)
RStrip(c) ==
    IF c # <<>> /\ c[Len(c)] \in Whitespace
    THEN RStrip(SubSeq(c, 1, Len(c) - 1))
    ELSE c

Strip(c) == RStrip(LStrip(c))

\* Python's `tok in c` on two strs: tok occurs as a contiguous substring of c
Contains(tok, c) ==
    \E s \in 0 .. (Len(c) - Len(tok)) : SubSeq(c, s + 1, s + Len(tok)) = tok

\* normalize_cell: None -> "", anything else -> str(s).strip()
normalize_cell(s) == IF s = NoneCell THEN EmptyStr ELSE Strip(s)

NormalizeRow(row) == [n \in 1 .. Len(row) |-> normalize_cell(row[n])]

NormalizeRows(rows) == [n \in 1 .. Len(rows) |-> NormalizeRow(rows[n])]

(***************************************************************************)
(* Literal tokens of the program                                           *)
(***************************************************************************)
TokTaxon == <<"t", "a", "x", "o", "n">>
TokStation == <<"s", "t", "a", "t", "i", "o", "n">>
TokPhyto == <<"p", "h", "y", "t", "o">>
TokDiversity == <<"d", "i", "v", "e", "r", "s", "i", "t", "y">>
TokMg == <<"m", "g", "/", "m", "^", "3">>
TokPercent == <<"%">>
TokUnitsOrCells == <<"u", "n", "i", "t", "s", " ", "o", "r", " ", "c", "e", "l", "l", "s", "/", "l">>
TokSentinel == <<"=", "=", "=", "=">>
TokCellsUnits == <<"c", "e", "l", "l", "s", "-", "u", "n", "i", "t", "s", "/", "l">>
TokRatio == <<"r", "a", "t", "i", "o">>

ColAlga == <<"A", "l", "g", "a">>
ColMg == <<"m", "g", "/", "m", "^", "3">>
ColMgPct == <<"m", "g", "/", "m", "^", "3", "_", "%">>
ColCellsUnits == <<"C", "e", "l", "l", "s", "-", "u", "n", "i", "t", "s", "/", "L">>
ColCellsUnitsPct == <<"C", "e", "l", "l", "s", "-", "u", "n", "i", "t", "s", "/", "L", "_", "%">>
ColRatio == <<"r", "a", "t", "i", "o">>

keep_headers == <<ColAlga, ColMg, ColMgPct, ColCellsUnits, ColCellsUnitsPct>>

t2_headers_final == keep_headers \o <<ColRatio>>

\* A column list that names the first percent column twice.
t3_target_headers_repeated ==
    <<ColAlga, ColMg, ColMgPct, ColCellsUnits, ColMgPct, ColRatio>>

t3_target_headers == <<ColAlga, ColMg, ColMgPct, ColCellsUnits, ColCellsUnitsPct, ColRatio>>

(***************************************************************************)
(* Row predicates                                                          *)
(***************************************************************************)
\* appv2.row_contains_all(row, required, case_insensitive=True, substring)
row_contains_all(row, required, substring) ==
    LET cells_lookup == [n \in 1 .. Len(row) |-> Lower(normalize_cell(row[n]))]
        req == [n \in 1 .. Len(required) |-> Lower(required[n])]
    IN  \A t \in 1 .. Len(req) :
            IF substring
            THEN \E n \in 1 .. Len(cells_lookup) : Contains(req[t], cells_lookup[n])
            ELSE \E n \in 1 .. Len(cells_lookup) : cells_lookup[n] = req[t]

\* appv2.row_contains_any_substring(row, tokens)
row_contains_any_substring(row, tokens) ==
    \E t \in 1 .. Len(tokens) :
        \E n \in 1 .. Len(row) :
            Contains(Lower(tokens[t]), Lower(normalize_cell(row[n])))

\* any(normalize_cell(c) for c in r) / any(cell.strip() != "" for cell in row)
RowNonEmpty(row) == \E n \in 1 .. Len(row) : normalize_cell(row[n]) # EmptyStr

\* The Table 1 header test of each implementation.
\*   extract: any("taxon" in cell.lower()) and any("station" in cell.lower())
\*   appv2  : row_contains_all(r, ["Taxon","Station"], substring=False)
IsTable1HeaderExtract(row) ==
    /\ \E n \in 1 .. Len(row) : Contains(TokTaxon, Lower(row[n]))
    /\ \E n \in 1 .. Len(row) : Contains(TokStation, Lower(row[n]))

IsTable1HeaderAppv2(row) ==
    row_contains_all(row, <<<<"T", "a", "x", "o", "n">>,
                            <<"S", "t", "a", "t", "i", "o", "n">>>>, FALSE)

IsTable1Header(im, row) ==
    IF im = "extract" THEN IsTable1HeaderExtract(row) ELSE IsTable1HeaderAppv2(row)

\* The Table 1 stop test of each implementation.
\*   extract: any("phyto" in cell.lower()) and any("diversity" in cell.lower())
\*   appv2  : row_contains_all(r, ["Phyto","Diversity:"], substring=True)
IsTable1StopExtract(row) ==
    /\ \E n \in 1 .. Len(row) : Contains(TokPhyto, Lower(row[n]))
    /\ \E n \in 1 .. Len(row) : Contains(TokDiversity, Lower(row[n]))

IsTable1StopAppv2(row) ==
    row_contains_all(row, <<<<"P", "h", "y", "t", "o">>,
                            <<"D", "i", "v", "e", "r", "s", "i", "t", "y", ":">>>>, TRUE)

IsTable1Stop(im, row) ==
    IF im = "extract" THEN IsTable1StopExtract(row) ELSE IsTable1StopAppv2(row)

\* The Table 2 header test (the same in both implementations).
IsTable2Header(row) ==
    LET first_empty == Len(row) > 0 /\ Cell(row, 0) = EmptyStr
        has_mg == \E n \in 1 .. Len(row) : row[n] # EmptyStr /\ Lower(row[n]) = TokMg
        has_units_or_cells ==
            \E n \in 1 .. Len(row) : Contains(TokUnitsOrCells, Lower(row[n]))
        count_percents == Cardinality({n \in 1 .. Len(row) : row[n] = TokPercent})
    IN  first_empty /\ has_mg /\ has_units_or_cells /\ count_percents >= 2

\* The Table 2 stop test: any("====" in cell.lower() for cell in row)
IsTable2Stop(row) == row_contains_any_substring(row, <<TokSentinel>>)

\* The Table 3 header test (the same in both implementations).
IsTable3Header(row) ==
    /\ Len(row) >= 4
    /\ Cell(row, 0) = EmptyStr
    /\ \E n \in 1 .. Len(row) : Lower(row[n]) = TokMg
    /\ \E n \in 1 .. Len(row) : Lower(row[n]) = TokCellsUnits
    /\ \E n \in 1 .. Len(row) : Lower(row[n]) = TokRatio

\* A Table 3 stop test that needs at least one cell in the row.
IsTable3StopNeedsCell(row) == row # <<>> /\ ~RowNonEmpty(row)

\* The Table 3 stop test: not any(normalize_cell(c) for c in row)
IsTable3Stop(row) == ~RowNonEmpty(row)


(***************************************************************************)
(* Forward scans                                                           *)
(***************************************************************************)
\* In the scans below a row test is given by `hits`, the set of the
\* (0-based) indices of the rows that satisfy it.

\* for k in range(start, len(rows)): if test(rows[k]): idx = k; break
\* The lowest index >= start whose row satisfies the test, or None.
RECURSIVE FirstIndexFrom(_, _, _)
FirstIndexFrom(rows, hits, start) ==
    IF start >= Len(rows) THEN None
    ELSE IF start \in hits THEN start
    ELSE FirstIndexFrom(rows, hits, start + 1)

\* while i < len(rows): if Stop(rows[i]): break; ...; i += 1
\* The index at which the loop leaves: the first stop row, or len(rows).
RECURSIVE ScanUntil(_, _, _)
ScanUntil(rows, hits, idx) ==
    IF idx < Len(rows) /\ idx \notin hits
    THEN ScanUntil(rows, hits, idx + 1)
    ELSE idx

\* rows[lo:hi]
Slice(rows, lo, hi) == SubSeq(rows, lo + 1, hi)

(***************************************************************************)
(* Metadata                                                                *)
(***************************************************************************)
\* first_non_empty_row(rows): index of the first row with a non-empty cell
first_non_empty_row(rows) ==
    FirstIndexFrom(rows, {n \in Indices(rows) : RowNonEmpty(Row(rows, n))}, 0)

\* A dict assignment that keeps the value a key already has.
DictSetKeepFirst(md, key, v) ==
    [x \in (DOMAIN md) \cup {key} |-> IF x \in DOMAIN md THEN md[x] ELSE v]

\* The dict after md[k] = v
DictSet(md, key, v) ==
    [x \in (DOMAIN md) \cup {key} |-> IF x = key THEN v ELSE md[x]]

EmptyDict == [x \in {} |-> EmptyStr]

\* for i in range(0, len(cells) - 1, 2): k = cells[i]; v = cells[i+1];
\*     if k: md[k] = v
RECURSIVE MetadataLoop(_, _, _)
MetadataLoop(cells, idx, md) ==
    IF idx < Len(cells) - 1
    THEN LET key == Cell(cells, idx)
             v == Cell(cells, idx + 1)
         IN  MetadataLoop(cells, idx + 2,
                          IF key # EmptyStr THEN DictSet(md, key, v) ELSE md)
    ELSE md

parse_metadata_pairs(row) == MetadataLoop(NormalizeRow(row), 0, EmptyDict)

(***************************************************************************)
(* Table 1                                                                 *)
(***************************************************************************)
\* for j, col in enumerate(header1): if col.lower() == "taxon": idx_taxon = j
FindTaxonColumn(hdr) ==
    LET hits == {j \in Indices(hdr) : Lower(Cell(hdr, j)) = TokTaxon}
    IN  IF hits = {} THEN None
        ELSE CHOOSE j \in hits : \A m \in hits : j <= m

\* idx_taxon < len(r) and r[idx_taxon] != ""
TaxonPresent(r, taxon_idx) ==
    taxon_idx < Len(r) /\ Cell(r, taxon_idx) # EmptyStr

\* [r for r in rows if idx_taxon < len(r) and r[idx_taxon] != ""]
RECURSIVE FilterRows(_, _)
FilterRows(rows, taxon_idx) ==
    IF rows = <<>> THEN <<>>
    ELSE (IF TaxonPresent(Head(rows), taxon_idx) THEN <<Head(rows)>> ELSE <<>>)
         \o FilterRows(Tail(rows), taxon_idx)

RECURSIVE MaxLen(_)
MaxLen(rows) ==
    IF rows = <<>> THEN 0 ELSE Max(Len(Head(rows)), MaxLen(Tail(rows)))

\* A width taken from the header alone, which cuts longer records.
Width1HeaderOnly(hdr, filtered) == Len(hdr)

\* max(len(header1), *(len(r) for r in filtered)) if filtered else len(header1)
Width1(hdr, filtered) ==
    IF filtered # <<>> THEN Max(Len(hdr), MaxLen(filtered)) ELSE Len(hdr)

\* (r + [""] * (w - len(r)))[:w]
PadRow(r, w) ==
    LET padded == r \o [n \in 1 .. Max(0, w - Len(r)) |-> EmptyStr]
    IN  SubSeq(padded, 1, Min(w, Len(padded)))

PadRows(rows, w) == [n \in 1 .. Len(rows) |-> PadRow(rows[n], w)]

\* pd.DataFrame(records, columns=columns)
DataFrame(records, columns) == [columns |-> columns, records |-> records]

EmptyFrame == DataFrame(<<>>, <<>>)

(***************************************************************************)
(* Table 2                                                                 *)
(***************************************************************************)
\* The loop over t2_headers_raw that builds header_map; norm_len is
\* len(t2_headers_norm), percent_seen the number of "%" cells met so far.
RECURSIVE HeaderMapLoop(_, _, _, _)
HeaderMapLoop(raw, norm_len, percent_seen, map) ==
    IF raw = <<>> THEN map
    ELSE LET c == Head(raw)
             lc == Lower(c)
         IN  IF c = EmptyStr /\ norm_len = 0
             THEN HeaderMapLoop(Tail(raw), norm_len + 1, percent_seen,
                                Append(map, ColAlga))
             ELSE IF lc = TokMg
             THEN HeaderMapLoop(Tail(raw), norm_len + 1, percent_seen,
                                Append(map, ColMg))
             ELSE IF c = TokPercent
             THEN HeaderMapLoop(Tail(raw), norm_len + 1, percent_seen + 1,
                                Append(map, IF percent_seen + 1 = 1
                                            THEN ColMgPct ELSE ColCellsUnitsPct))
             ELSE IF Contains(TokUnitsOrCells, lc)
             THEN HeaderMapLoop(Tail(raw), norm_len + 1, percent_seen,
                                Append(map, ColCellsUnits))
             ELSE HeaderMapLoop(Tail(raw), norm_len, percent_seen,
                                Append(map, NoneCell))

\* A header map that keeps only the first position of every column name.
BuildHeaderMapFirstPosition(raw) ==
    LET map == HeaderMapLoop(raw, 0, 0, <<>>)
    IN  [n \in 1 .. Len(map) |->
            IF \E m \in 1 .. (n - 1) : map[m] = map[n] THEN NoneCell ELSE map[n]]

BuildHeaderMap(raw) == HeaderMapLoop(raw, 0, 0, <<>>)

InSeq(x, s) == \E n \in 1 .. Len(s) : s[n] = x

\* for raw_idx, col_name in enumerate(header_map):
\*     if col_name in keep_headers: collected[col_name] = val
RECURSIVE CollectLoop(_, _, _, _)
CollectLoop(map, row, raw_idx, collected) ==
    IF raw_idx >= Len(map) THEN collected
    ELSE LET col_name == Cell(map, raw_idx)
             val == IF raw_idx < Len(row) THEN Cell(row, raw_idx) ELSE EmptyStr
         IN  CollectLoop(map, row, raw_idx + 1,
                         IF InSeq(col_name, keep_headers)
                         THEN DictSet(collected, col_name, val)
                         ELSE collected)

\* collected.get(h, "")
DictGet(d, key, default) == IF key \in DOMAIN d THEN d[key] ELSE default

\* A Table 2 record whose ratio is read from the row's sixth cell.
Table2RecordReadsRatio(map, row) ==
    LET collected == CollectLoop(map, row, 0, EmptyDict)
        trimmed == [n \in 1 .. Len(keep_headers) |->
                        DictGet(collected, keep_headers[n], EmptyStr)]
    IN  Append(trimmed, IF Len(row) > 5 THEN Cell(row, 5) ELSE EmptyStr)

\* trimmed = [collected.get(h, "") for h in keep_headers]; trimmed.append("")
Table2Record(map, row) ==
    LET collected == CollectLoop(map, row, 0, EmptyDict)
        trimmed == [n \in 1 .. Len(keep_headers) |->
                        DictGet(collected, keep_headers[n], EmptyStr)]
    IN  Append(trimmed, EmptyStr)

\* Table 2 records that leave out the blank body rows.
Table2RecordsSkipBlank(map, rows) ==
    LET kept == SelectSeq(rows, RowNonEmpty)
    IN  [n \in 1 .. Len(kept) |-> Table2Record(map, kept[n])]

Table2Records(map, rows) == [n \in 1 .. Len(rows) |-> Table2Record(map, rows[n])]

(***************************************************************************)
(* Table 3                                                                 *)
(***************************************************************************)
\* table3_rows[p] if len(table3_rows) > p else ""
CellOrEmpty(row, p) == IF Len(row) > p THEN Cell(row, p) ELSE EmptyStr

\* A Table 3 record without the two inserted percent columns.
Table3RecordNoPlaceholders(row) ==
    <<CellOrEmpty(row, 0), CellOrEmpty(row, 1), CellOrEmpty(row, 2),
      CellOrEmpty(row, 3)>>

\* row_out = [alga, mg, "", cells_units, "", ratio]
Table3Record(row) ==
    <<CellOrEmpty(row, 0), CellOrEmpty(row, 1), EmptyStr,
      CellOrEmpty(row, 2), EmptyStr, CellOrEmpty(row, 3)>>

Table3Records(rows) == [n \in 1 .. Len(rows) |-> Table3Record(rows[n])]

(***************************************************************************)
(* Merge                                                                   *)
(***************************************************************************)
\* The position of a column name in a column list (first occurrence).
ColumnIndex(columns, name) ==
    CHOOSE n \in 1 .. Len(columns) :
        columns[n] = name /\ \A m \in 1 .. (n - 1) : columns[m] # name

\* df[names]: the frame re-projected on the named columns, in that order
Project(df, names) ==
    DataFrame([r \in 1 .. Len(df.records) |->
                  [n \in 1 .. Len(names) |->
                      df.records[r][ColumnIndex(df.columns, names[n])]]],
              names)

\* df2[t3_target_headers] if list(df2.columns) != t3_target_headers else df2
Align(df, names) == IF df.columns # names THEN Project(df, names) ELSE df

\* A concatenation that drops the records of b already present in a.
ConcatDropDuplicates(a, b) ==
    DataFrame(a.records \o SelectSeq(b.records, LAMBDA r : ~InSeq(r, a.records)),
              a.columns)

\* pd.concat([a, b], ignore_index=True) on two frames with the same columns:
\* a's records followed by b's, the index renumbered from 0
Concat(a, b) == DataFrame(a.records \o b.records, a.columns)

(***************************************************************************)
(* Input documents                                                         *)
(*                                                                         *)
(* Raw rows as csv.reader hands them over (cells not yet trimmed; None     *)
(* stands for an absent value).  A document is a concatenation             *)
(*   pre-rows, Table 1 header, body, stop row, gap, Table 2 header, body,  *)
(*   stop row, gap, Table 3 header, body, rows after                       *)
(* in which any part may be missing.  The families below vary one section  *)
(* of the document in depth and take the other sections from a short list. *)
(***************************************************************************)

\* Rows above the Table 1 header
RowEmpty == <<>>

RowBlank == <<<<>>, <<" ", " ">>>>

RowSite == <<<<"S", "i", "t", "e">>, <<"A">>>>

RowPairs == <<<<"S", "i", "t", "e">>, <<"A">>, NoneCell, <<"x">>, <<" ">>, <<"y">>, <<"S", "i", "t", "e">>, <<" ", "B", " ">>, <<"O", "d", "d">>>>

RowDecoy == <<<<"T", "a", "x", "o", "n", "o", "m", "y">>, <<"S", "t", "a", "t", "i", "o", "n", " ", "I", "D">>>>


\* Table 1 header rows
RowH1 == <<<<"T", "a", "x", "o", "n">>, <<"S", "t", "a", "t", "i", "o", "n">>, <<"C", "o", "u", "n", "t">>>>

RowH1Swapped == <<<<" ", "S", "t", "a", "t", "i", "o", "n">>, <<"T", "A", "X", "O", "N", " ">>>>

RowH1Repeated == <<<<"T", "a", "x", "o", "n">>, <<"S", "t", "a", "t", "i", "o", "n">>, <<"C", "o", "u", "n", "t">>, <<"C", "o", "u", "n", "t">>>>


\* Table 1 body rows
RowDiatom == <<<<"D", "i", "a", "t", "o", "m">>, <<"1">>, <<"5">>>>

RowNoTaxon == <<<<>>, <<"1">>>>

RowShort == <<<<"G", "r", "e", "e", "n">>>>

RowLong == <<<<"G", "r", "e", "e", "n">>, <<"2">>, <<"7">>, <<"x">>, <<"y">>>>

RowNoColon == <<<<"A", "l", "g", "a">>, <<"P", "h", "y", "t", "o">>, <<"D", "i", "v", "e", "r", "s", "i", "t", "y">>>>


\* Table 1 stop rows
RowS1 == <<<<>>, <<>>, <<"P", "h", "y", "t", "o">>, <<"D", "i", "v", "e", "r", "s", "i", "t", "y", ":">>, <<"0", ".", "5">>>>

RowS1OneCell == <<<<"P", "H", "Y", "T", "O", "p", "l", "a", "n", "k", "t", "o", "n", " ", "D", "i", "v", "e", "r", "s", "i", "t", "y", ":", " ", "0", ".", "5">>>>


\* A Table 1 stop row that is a Table 2 header row as well
RowS1H2 == <<<<>>, <<"m", "g", "/", "m", "^", "3">>, <<"%">>, <<"u", "n", "i", "t", "s", " ", "o", "r", " ", "c", "e", "l", "l", "s", "/", "l">>, <<"%">>, <<"P", "h", "y", "t", "o">>, <<"D", "i", "v", "e", "r", "s", "i", "t", "y", ":">>>>


\* Rows between the sections
RowGap == <<<<"T", "o", "t", "a", "l">>, <<"3">>>>


\* Table 2 header rows
RowH2 == <<<<>>, <<"m", "g", "/", "m", "^", "3">>, <<"%">>, <<" ", "u", "n", "i", "t", "s", " ", "o", "r", " ", "C", "e", "l", "l", "s", "/", "L">>, <<"%">>>>

RowH2Mixed == <<<<>>, <<"%">>, <<"E", "x", "t", "r", "a">>, <<"M", "G", "/", "M", "^", "3">>, <<"U", "n", "i", "t", "s", " ", "o", "r", " ", "c", "e", "l", "l", "s", "/", "L", " ", "(", "x", ")">>, <<"%">>, <<"%">>>>

RowH2Twice == <<<<>>, <<"m", "g", "/", "m", "^", "3">>, <<"%">>, <<"u", "n", "i", "t", "s", " ", "o", "r", " ", "c", "e", "l", "l", "s", "/", "L">>, <<"%">>, <<"M", "g", "/", "m", "^", "3">>, <<"U", "n", "i", "t", "s", " ", "o", "r", " ", "C", "e", "l", "l", "s", "/", "L">>>>


\* Table 2 body rows
RowAlga1 == <<<<"A", "l", "g", "a", "1">>, <<"0", ".", "2">>, <<"1", "0">>, <<"1", "5", "0">>, <<"5">>>>

RowAlga2 == <<<<"A", "l", "g", "a", "2">>, <<"0", ".", "3">>>>

RowAlga3 == <<<<"A", "l", "g", "a", "3">>, <<"1">>, <<"2">>, <<"3">>, <<"4">>, <<"5">>, <<"6">>, <<"7">>>>

RowAlga7 == <<<<"A", "l", "g", "a", "7">>, <<"1">>, <<"2">>, <<"3">>, <<"4">>, <<"5">>>>


\* Table 2 stop rows
RowS2 == <<<<"=", "=", "=", "=">>>>

RowS2Inside == <<<<"x">>, <<"=", "=", " ", "=", "=", "=", "=", "=", " ", "=", "=">>>>


\* A Table 2 stop row that is a Table 3 header row as well
RowS2H3 == <<<<>>, <<"m", "g", "/", "m", "^", "3">>, <<"C", "e", "l", "l", "s", "-", "u", "n", "i", "t", "s", "/", "L">>, <<"r", "a", "t", "i", "o">>, <<"=", "=", "=", "=">>>>


\* Table 3 header rows
RowH3 == <<<<>>, <<"m", "g", "/", "m", "^", "3">>, <<"C", "e", "l", "l", "s", "-", "u", "n", "i", "t", "s", "/", "L">>, <<"r", "a", "t", "i", "o">>>>

RowH3Mixed == <<<<>>, <<"R", "a", "t", "i", "o">>, <<"x">>, <<"c", "e", "l", "l", "s", "-", "u", "n", "i", "t", "s", "/", "l">>, <<"M", "G", "/", "M", "^", "3">>>>


\* Table 3 body rows
RowAlga4 == <<<<"A", "l", "g", "a", "4">>, <<"1">>, <<"2">>, <<"0", ".", "5">>>>

RowAlga5 == <<<<"A", "l", "g", "a", "5">>, <<"1">>>>

RowAlga6 == <<<<"A", "l", "g", "a", "6">>, <<"1">>, <<"2">>, <<>>, <<"9">>>>


\* Rows after Table 3
RowAfter == <<<<"A", "f", "t", "e", "r">>, <<"9">>>>


\* The longest run of rows drawn for a section.
MaxPre == 2

MaxBody1 == 2

MaxBody2 == 2

MaxBody3 == 2

\* All sequences of at most n rows of the pool.
SeqsUpTo(pool, n) == UNION {[1 .. m -> pool] : m \in 0 .. n}

\* A part that may be missing: the one-row sequences of the pool, and <<>>.
Optional(pool) == {<<>>} \cup {<<r>> : r \in pool}

PrePool == {RowEmpty, RowBlank, RowSite, RowPairs, RowDecoy}

Body1Pool == {RowDiatom, RowNoTaxon, RowShort, RowLong, RowNoColon, RowH2}

Body2Pool == {RowAlga1, RowAlga2, RowAlga3, RowEmpty, RowH3}

Body2ColumnsPool == {RowAlga3, RowAlga7, RowBlank}

Body3Pool == {RowAlga4, RowAlga5, RowAlga6}

\* The default sections: a well-formed document.
DefaultTable1 == <<RowH1, RowDiatom, RowS1>>

DefaultTable2 == <<RowH2, RowAlga1, RowS2>>

DefaultTable3 == <<RowGap, RowH3, RowAlga4>>

\* Family 1: the rows above the Table 1 header and the header itself.
DocsMetadata ==
    {pre \o h1 \o <<RowDiatom, RowS1>> \o DefaultTable2 \o DefaultTable3 :
        pre \in SeqsUpTo(PrePool, MaxPre),
        h1 \in Optional({RowH1, RowH1Swapped})}

\* Family 2: the Table 1 header, body and stop row.
DocsTable1 ==
    {pre \o <<h1>> \o body \o s1 \o DefaultTable2 \o DefaultTable3 :
        pre \in Optional({RowSite}),
        h1 \in {RowH1, RowH1Swapped, RowH1Repeated},
        body \in SeqsUpTo(Body1Pool, MaxBody1),
        s1 \in Optional({RowS1, RowS1OneCell})}

\* Family 3: the Table 2 header, body and stop row.
DocsTable2 ==
    {<<RowSite>> \o DefaultTable1 \o gap \o h2 \o body \o s2 \o DefaultTable3 :
        gap \in Optional({RowGap}),
        h2 \in Optional({RowH2, RowH2Mixed}),
        body \in SeqsUpTo(Body2Pool, MaxBody2),
        s2 \in Optional({RowS2, RowS2Inside})}

\* Family 4: the Table 3 header, body and the rows after it.
DocsTable3 ==
    {<<RowSite>> \o DefaultTable1 \o <<RowH2>> \o body2 \o <<RowS2>> \o h3
                 \o body3 \o after :
        body2 \in {<<>>, <<RowAlga1>>, <<RowAlga5, RowAlga1>>},
        h3 \in Optional({RowH3, RowH3Mixed}),
        body3 \in SeqsUpTo(Body3Pool, MaxBody3),
        after \in {<<>>, <<RowBlank, RowAfter>>, <<RowEmpty, RowAfter>>}}

\* Family 5: Table 2 headers with several positions for one column name,
\* over body rows of three lengths.
DocsTable2Columns ==
    {<<RowSite>> \o DefaultTable1 \o <<h2>> \o body \o <<s2>> \o DefaultTable3 :
        h2 \in {RowH2Mixed, RowH2Twice},
        body \in SeqsUpTo(Body2ColumnsPool, MaxBody2),
        s2 \in {RowS2, RowS2Inside}}

\* Family 6: header rows inside the body of the section before, and stop
\* rows that are the next section's header.
DocsCursors ==
    {<<RowH1>> \o body1 \o <<s1>> \o h2 \o body2 \o <<s2>> \o h3 \o <<RowAlga4>> :
        body1 \in {<<RowDiatom>>, <<RowH2, RowDiatom>>},
        s1 \in {RowS1, RowS1H2},
        h2 \in Optional({RowH2}),
        body2 \in {<<RowAlga1>>, <<RowH3, RowAlga1>>},
        s2 \in {RowS2, RowS2H3},
        h3 \in {<<>>, <<RowGap, RowH3>>}}

Documents == DocsMetadata \cup DocsTable1 \cup DocsTable2 \cup DocsTable3
                 \cup DocsCursors \cup DocsTable2Columns

(***************************************************************************)
(* State: the locals of one call of extract_sections                       *)
(***************************************************************************)
VARIABLES
    impl,                \* which implementation runs: "extract" or "appv2"
    all_rows,            \* the argument: the raw rows of the document
    pc,                  \* the position in extract_sections
    normalized_rows,     \* normalized_rows (extract) / rows (appv2)
    idx_table1_header,
    metadata_dict,
    metadata_bound,      \* whether the local metadata_dict has been assigned
    idx_taxon,
    i,                   \* the Table 1 loop index: where Table 1 stopped
    df1,
    idx_table2_header,
    header_map,
    r_idx,               \* the Table 2 loop index: where Table 2 stopped
    df2,
    idx_table3_header,
    k,                   \* the Table 3 loop index: where Table 3 stopped
    df3,
    df2_plus_df3,
    error,               \* the exception that ended the call, "" if none
    result               \* <<>> until the call returns, then <<the tuple>>

vars == <<impl, all_rows, pc, normalized_rows, idx_table1_header, metadata_dict,
          metadata_bound, idx_taxon, i, df1, idx_table2_header, header_map,
          r_idx, df2, idx_table3_header, k, df3, df2_plus_df3, error, result>>

Implementations == {"extract", "appv2"}

\* The exceptions extract_sections can end with.
ErrTable1Header == "ValueError: Could not find Table 1 header row"
ErrTaxonColumn == "ValueError: no 'Taxon' column was found"
ErrTable2Header == "ValueError: Could not find Table 2 header row"
ErrTable3Header == "ValueError: Could not find Table 3 header row"
ErrUnbound == "UnboundLocalError: metadata_dict"

NoResult == <<>>

(***************************************************************************)
(* The steps of extract_sections                                           *)
(***************************************************************************)
\* Normalize all rows to trimmed strings.
Normalize ==
    /\ pc = "normalize"
    /\ normalized_rows' = NormalizeRows(all_rows)
    /\ pc' = "find_table1"
    /\ UNCHANGED <<impl, all_rows, idx_table1_header, metadata_dict, metadata_bound,
                   idx_taxon, i, df1, idx_table2_header, header_map, r_idx, df2,
                   idx_table3_header, k, df3, df2_plus_df3, error, result>>

\* Find Table 1 header; raise if there is none.
FindTable1Header ==
    /\ pc = "find_table1"
    /\ LET found == FirstIndexFrom(normalized_rows, {n \in Indices(normalized_rows) :
                                       IsTable1Header(impl, Row(normalized_rows, n))}, 0)
       IN  /\ idx_table1_header' = found
           /\ IF found = None
              THEN pc' = "raised" /\ error' = ErrTable1Header
              ELSE pc' = "metadata" /\ error' = error
    /\ UNCHANGED <<impl, all_rows, normalized_rows, metadata_dict, metadata_bound,
                   idx_taxon, i, df1, idx_table2_header, header_map, r_idx, df2,
                   idx_table3_header, k, df3, df2_plus_df3, result>>

\* Metadata handling: everything above the Table 1 header.  appv2 binds
\* metadata_dict = {} before the test; extract binds it only inside the
\* `if first_non_empty_mdata_row_idx is not None:` branch.
ExtractMetadata ==
    /\ pc = "metadata"
    /\ LET pre_rows == Slice(normalized_rows, 0, idx_table1_header)
           md_row_idx == first_non_empty_row(pre_rows)
       IN  IF md_row_idx # None
           THEN /\ metadata_dict' = parse_metadata_pairs(Row(pre_rows, md_row_idx))
                /\ metadata_bound' = TRUE
           ELSE IF impl = "appv2"
           THEN /\ metadata_dict' = EmptyDict
                /\ metadata_bound' = TRUE
           ELSE UNCHANGED <<metadata_dict, metadata_bound>>
    /\ pc' = "table1"
    /\ UNCHANGED <<impl, all_rows, normalized_rows, idx_table1_header,
                   idx_taxon, i, df1, idx_table2_header, header_map, r_idx, df2,
                   idx_table3_header, k, df3, df2_plus_df3, error, result>>

\* Extract Table 1: Taxon column, body up to the stop row, filter, pad.
ExtractTable1 ==
    /\ pc = "table1"
    /\ LET header1 == Row(normalized_rows, idx_table1_header)
           taxon == FindTaxonColumn(header1)
           stop == ScanUntil(normalized_rows,
                             {n \in Indices(normalized_rows) :
                                 IsTable1Stop(impl, Row(normalized_rows, n))},
                             idx_table1_header + 1)
           data_table1 == Slice(normalized_rows, idx_table1_header + 1, stop)
           data_table1_filtered ==
               FilterRows(data_table1, taxon)
           width1 == Width1(header1, data_table1_filtered)
       IN  /\ idx_taxon' = taxon
           /\ IF taxon = None
              THEN /\ pc' = "raised"
                   /\ error' = ErrTaxonColumn
                   /\ UNCHANGED <<i, df1>>
              ELSE /\ pc' = "find_table2"
                   /\ error' = error
                   /\ i' = stop
                   /\ df1' = DataFrame(PadRows(data_table1_filtered, width1),
                                       PadRow(header1, width1))
    /\ UNCHANGED <<impl, all_rows, normalized_rows, idx_table1_header, metadata_dict,
                   metadata_bound, idx_table2_header, header_map, r_idx, df2,
                   idx_table3_header, k, df3, df2_plus_df3, result>>

\* A Table 2 search that starts at the row after the Table 1 header.
FindTable2HeaderFromTable1 ==
    /\ pc = "find_table2"
    /\ LET found == FirstIndexFrom(normalized_rows, {n \in Indices(normalized_rows) :
                                       IsTable2Header(Row(normalized_rows, n))},
                                   idx_table1_header + 1)
       IN  /\ idx_table2_header' = found
           /\ IF found = None
              THEN pc' = "raised" /\ error' = ErrTable2Header
              ELSE pc' = "table2" /\ error' = error
    /\ UNCHANGED <<impl, all_rows, normalized_rows, idx_table1_header, metadata_dict,
                   metadata_bound, idx_taxon, i, df1, header_map, r_idx, df2,
                   idx_table3_header, k, df3, df2_plus_df3, result>>

\* Find the Table 2 header from i on; raise if there is none.
FindTable2Header ==
    /\ pc = "find_table2"
    /\ LET found == FirstIndexFrom(normalized_rows, {n \in Indices(normalized_rows) :
                                       IsTable2Header(Row(normalized_rows, n))}, i)
       IN  /\ idx_table2_header' = found
           /\ IF found = None
              THEN pc' = "raised" /\ error' = ErrTable2Header
              ELSE pc' = "table2" /\ error' = error
    /\ UNCHANGED <<impl, all_rows, normalized_rows, idx_table1_header, metadata_dict,
                   metadata_bound, idx_taxon, i, df1, header_map, r_idx, df2,
                   idx_table3_header, k, df3, df2_plus_df3, result>>

\* Extract Table 2: header map, body up to the "====" row.
ExtractTable2 ==
    /\ pc = "table2"
    /\ LET t2_headers_raw == Row(normalized_rows, idx_table2_header)
           map == BuildHeaderMap(t2_headers_raw)
           stop == ScanUntil(normalized_rows,
                             {n \in Indices(normalized_rows) :
                                 IsTable2Stop(Row(normalized_rows, n))},
                             idx_table2_header + 1)
           body == Slice(normalized_rows, idx_table2_header + 1, stop)
       IN  /\ header_map' = map
           /\ r_idx' = stop
           /\ df2' = DataFrame(Table2Records(map, body), t2_headers_final)
    /\ pc' = "find_table3"
    /\ UNCHANGED <<impl, all_rows, normalized_rows, idx_table1_header, metadata_dict,
                   metadata_bound, idx_taxon, i, df1, idx_table2_header,
                   idx_table3_header, k, df3, df2_plus_df3, error, result>>

\* A Table 3 search that goes on with an empty Table 3 when no header is found.
FindTable3HeaderLenient ==
    /\ pc = "find_table3"
    /\ LET found == FirstIndexFrom(normalized_rows, {n \in Indices(normalized_rows) :
                                       IsTable3Header(Row(normalized_rows, n))}, r_idx)
       IN  /\ idx_table3_header' = found
           /\ pc' = IF found = None THEN "merge" ELSE "table3"
    /\ UNCHANGED <<impl, all_rows, normalized_rows, idx_table1_header, metadata_dict,
                   metadata_bound, idx_taxon, i, df1, idx_table2_header, header_map,
                   r_idx, df2, k, df3, df2_plus_df3, error, result>>

\* Skip lines after "====" until the Table 3 header; raise if there is none.
FindTable3Header ==
    /\ pc = "find_table3"
    /\ LET found == FirstIndexFrom(normalized_rows, {n \in Indices(normalized_rows) :
                                       IsTable3Header(Row(normalized_rows, n))}, r_idx)
       IN  /\ idx_table3_header' = found
           /\ IF found = None
              THEN pc' = "raised" /\ error' = ErrTable3Header
              ELSE pc' = "table3" /\ error' = error
    /\ UNCHANGED <<impl, all_rows, normalized_rows, idx_table1_header, metadata_dict,
                   metadata_bound, idx_taxon, i, df1, idx_table2_header, header_map,
                   r_idx, df2, k, df3, df2_plus_df3, result>>

\* Extract Table 3: body up to the first all-empty row.
ExtractTable3 ==
    /\ pc = "table3"
    /\ LET stop == ScanUntil(normalized_rows,
                             {n \in Indices(normalized_rows) :
                                 IsTable3Stop(Row(normalized_rows, n))},
                             idx_table3_header + 1)
           body == Slice(normalized_rows, idx_table3_header + 1, stop)
       IN  /\ k' = stop
           /\ df3' = DataFrame(Table3Records(body), t3_target_headers)
    /\ pc' = "merge"
    /\ UNCHANGED <<impl, all_rows, normalized_rows, idx_table1_header, metadata_dict,
                   metadata_bound, idx_taxon, i, df1, idx_table2_header, header_map,
                   r_idx, df2, idx_table3_header, df2_plus_df3, error, result>>

\* Concatenate Table 3 under Table 2 and return.  Reading the unassigned
\* local metadata_dict in the return statement raises UnboundLocalError.
MergeAndReturn ==
    /\ pc = "merge"
    /\ LET df2_aligned == Align(df2, t3_target_headers)
           merged == Concat(df2_aligned, df3)
       IN  /\ df2_plus_df3' = merged
           /\ IF metadata_bound
              THEN /\ pc' = "returned"
                   /\ error' = error
                   /\ result' = <<[metadata_dict |-> metadata_dict, df1 |-> df1,
                                   df2 |-> df2, df3 |-> df3,
                                   df2_plus_df3 |-> merged]>>
              ELSE /\ pc' = "raised"
                   /\ error' = ErrUnbound
                   /\ result' = result
    /\ UNCHANGED <<impl, all_rows, normalized_rows, idx_table1_header, metadata_dict,
                   metadata_bound, idx_taxon, i, df1, idx_table2_header, header_map,
                   r_idx, df2, idx_table3_header, k, df3>>

Next ==
    \/ Normalize
    \/ FindTable1Header
    \/ ExtractMetadata
    \/ ExtractTable1
    \/ FindTable2Header
    \/ ExtractTable2
    \/ FindTable3Header
    \/ ExtractTable3
    \/ MergeAndReturn

Init ==
    /\ impl \in Implementations
    /\ all_rows \in Documents
    /\ pc = "normalize"
    /\ normalized_rows = <<>>
    /\ idx_table1_header = None
    /\ metadata_dict = EmptyDict
    /\ metadata_bound = FALSE
    /\ idx_taxon = None
    /\ i = None
    /\ df1 = EmptyFrame
    /\ idx_table2_header = None
    /\ header_map = <<>>
    /\ r_idx = None
    /\ df2 = EmptyFrame
    /\ idx_table3_header = None
    /\ k = None
    /\ df3 = EmptyFrame
    /\ df2_plus_df3 = EmptyFrame
    /\ error = ""
    /\ result = NoResult

Spec == Init /\ [][Next]_vars

(***************************************************************************)
(* Vocabulary of the properties                                            *)
(***************************************************************************)
Returned == pc = "returned"

Raised == pc = "raised"

Finished == Returned \/ Raised

\* The tuple extract_sections returned.
Out == result[1]

\* The 0-based indices of the rows strictly above the Table 1 header.
PreRows == 0 .. (idx_table1_header - 1)

NonBlank(n) == \E c \in 1 .. Len(Row(normalized_rows, n)) :
                   Cell(Row(normalized_rows, n), c - 1) # EmptyStr

NonBlankPreRows == {n \in PreRows : NonBlank(n)}

\* The first non-blank row above the Table 1 header.
FirstNonBlankPreRow == CHOOSE n \in NonBlankPreRows : \A m \in NonBlankPreRows : n <= m

CanonicalSchema ==
    << <<"A", "l", "g", "a">>,
       <<"m", "g", "/", "m", "^", "3">>,
       <<"m", "g", "/", "m", "^", "3", "_", "%">>,
       <<"C", "e", "l", "l", "s", "-", "u", "n", "i", "t", "s", "/", "L">>,
       <<"C", "e", "l", "l", "s", "-", "u", "n", "i", "t", "s", "/", "L", "_", "%">>,
       <<"r", "a", "t", "i", "o">> >>

\* s is t followed by empty strings only.
IsRightPaddingOf(s, t) ==
    /\ Len(s) >= Len(t)
    /\ \A n \in 1 .. Len(t) : s[n] = t[n]
    /\ \A n \in (Len(t) + 1) .. Len(s) : s[n] = EmptyStr

(***************************************************************************)
(* C1.  When the Table 1, Table 2 and Table 3 headers are all located and  *)
(* no row strictly above the Table 1 header has a non-empty cell, the      *)
(* parse succeeds and returns the empty metadata mapping.                  *)
(***************************************************************************)
C1_BlankPreambleSucceeds ==
    ( /\ Finished
      /\ idx_table1_header # None
      /\ idx_table2_header # None
      /\ idx_table3_header # None
      /\ NonBlankPreRows = {} )
    => ( Returned /\ DOMAIN Out.metadata_dict = {} )

(***************************************************************************)
(* C2.  On a successful parse with a non-blank row above the Table 1       *)
(* header, the metadata is the alternating-pair reading of the first such  *)
(* row: cell 2j is a key for cell 2j+1 when 2j+1 is inside the row and     *)
(* cell 2j is not empty, the rightmost pair winning for a repeated key;    *)
(* nothing else is a key.                                                  *)
(***************************************************************************)
\* The pair positions j of the row: 2j+1 < len and a non-empty cell at 2j.
PairPositions(cells) ==
    {j \in 0 .. Len(cells) : 2 * j + 1 < Len(cells) /\ Cell(cells, 2 * j) # EmptyStr}

C2_MetadataIsFirstNonBlankRowPairs ==
    (Returned /\ NonBlankPreRows # {}) =>
        LET cells == Row(normalized_rows, FirstNonBlankPreRow)
            pairs == PairPositions(cells)
            md == Out.metadata_dict
        IN  /\ DOMAIN md = {Cell(cells, 2 * j) : j \in pairs}
            /\ EmptyStr \notin DOMAIN md
            /\ \A j \in pairs :
                   (\A j2 \in pairs : Cell(cells, 2 * j2) = Cell(cells, 2 * j) => j2 <= j)
                   => md[Cell(cells, 2 * j)] = Cell(cells, 2 * j + 1)

\* A successful parse whose metadata row follows a blank row, has an odd
\* number of cells, a pair with an empty key and a key that occurs twice.
C2_Witness ==
    /\ Returned
    /\ NonBlankPreRows # {}
    /\ FirstNonBlankPreRow > 0
    /\ LET cells == Row(normalized_rows, FirstNonBlankPreRow)
       IN  /\ Len(cells) % 2 = 1
           /\ \E j \in 0 .. Len(cells) :
                  2 * j + 1 < Len(cells) /\ Cell(cells, 2 * j) = EmptyStr
           /\ \E j1, j2 \in PairPositions(cells) :
                  /\ j1 < j2
                  /\ Cell(cells, 2 * j1) = Cell(cells, 2 * j2)
                  /\ Cell(cells, 2 * j1 + 1) # Cell(cells, 2 * j2 + 1)

(***************************************************************************)
(* C3.  On a successful parse every Table 1 record has a non-empty Taxon   *)
(* cell and as many cells as the Table 1 column list; the column list is   *)
(* the header row, and each record its source row, followed by empty       *)
(* strings only; the records are exactly the rows between the header and   *)
(* the stop point whose Taxon cell is present and non-empty, in order.     *)
(***************************************************************************)
\* The rows between the Table 1 header and the point where Table 1 stopped.
Table1Candidates == (idx_table1_header + 1) .. (i - 1)

Table1Kept ==
    {n \in Table1Candidates :
        /\ Len(Row(normalized_rows, n)) > idx_taxon
        /\ Cell(Row(normalized_rows, n), idx_taxon) # EmptyStr}

\* The m-th (1-based) element of a finite set of integers, in increasing order.
NthOf(S, m) == CHOOSE x \in S : Cardinality({y \in S : y < x}) = m - 1

C3_Table1FilteredAndPadded ==
    Returned =>
        LET t1 == Out.df1
            width == Len(t1.columns)
        IN  /\ IsRightPaddingOf(t1.columns, Row(normalized_rows, idx_table1_header))
            /\ Len(t1.records) = Cardinality(Table1Kept)
            /\ \A m \in 1 .. Len(t1.records) :
                   /\ Len(t1.records[m]) = width
                   /\ Cell(t1.records[m], idx_taxon) # EmptyStr
                   /\ IsRightPaddingOf(t1.records[m],
                                       Row(normalized_rows, NthOf(Table1Kept, m)))

\* A successful parse where a kept row is longer than the header (the
\* header is padded), a kept row is padded and a candidate row is dropped.
C3_Witness ==
    /\ Returned
    /\ Len(Out.df1.columns) > Len(Row(normalized_rows, idx_table1_header))
    /\ Table1Kept # {}
    /\ Table1Kept # Table1Candidates
    /\ \E n \in Table1Kept : Len(Row(normalized_rows, n)) > Len(Row(normalized_rows, idx_table1_header))

(***************************************************************************)
(* C4.  On a successful parse Table 2 and Table 3 have the six canonical   *)
(* columns in the fixed order and every record of either has six cells,    *)
(* whatever the length of the source rows and the layout of the header.    *)
(***************************************************************************)
C4_CanonicalShape ==
    Returned =>
        /\ Out.df2.columns = CanonicalSchema
        /\ Out.df3.columns = CanonicalSchema
        /\ \A m \in 1 .. Len(Out.df2.records) : Len(Out.df2.records[m]) = 6
        /\ \A m \in 1 .. Len(Out.df3.records) : Len(Out.df3.records[m]) = 6

\* The rows that supplied the records of Table 2 and of Table 3.
Table2Body == (idx_table2_header + 1) .. (r_idx - 1)

Table3Body == (idx_table3_header + 1) .. (k - 1)

\* A successful parse whose Table 2 header is not in canonical order and
\* whose Table 2 body has a row shorter and a row longer than the header,
\* with a Table 3 record as well.
C4_Witness ==
    /\ Returned
    /\ Row(normalized_rows, idx_table2_header)[2] = TokPercent
    /\ \E n \in Table2Body :
           Len(Row(normalized_rows, n)) < Len(Row(normalized_rows, idx_table2_header))
    /\ \E n \in Table2Body :
           Len(Row(normalized_rows, n)) > Len(Row(normalized_rows, idx_table2_header))
    /\ Len(Out.df3.records) > 0

(***************************************************************************)
(* C5.  On a successful parse the merged table has the canonical columns   *)
(* and its records are the records of Table 2, in order, followed by the   *)
(* records of Table 3, in order: none dropped, altered, de-duplicated or   *)
(* re-sorted.                                                              *)
(***************************************************************************)
C5_MergeIsConcatenation ==
    Returned =>
        LET t2 == Out.df2.records
            t3 == Out.df3.records
            m23 == Out.df2_plus_df3
        IN  /\ m23.columns = CanonicalSchema
            /\ Len(m23.records) = Len(t2) + Len(t3)
            /\ \A n \in 1 .. Len(t2) : m23.records[n] = t2[n]
            /\ \A n \in 1 .. Len(t3) : m23.records[Len(t2) + n] = t3[n]

\* A successful parse where both tables have records, one record occurs in
\* both, and the merged order is not the sorted order.
C5_Witness ==
    /\ Returned
    /\ Len(Out.df2.records) >= 2
    /\ Len(Out.df3.records) >= 1
    /\ \E n \in 1 .. Len(Out.df3.records) : InSeq(Out.df3.records[n], Out.df2.records)

(***************************************************************************)
(* C6.  When no row is a Table 1 header, or no row from the Table 1 stop   *)
(* index on is a Table 2 header, or no row from the Table 2 stop index on  *)
(* is a Table 3 header, the call ends with the error naming that section   *)
(* and returns nothing, whatever was extracted before.                     *)
(***************************************************************************)
RowsFrom(start) == start .. (Len(normalized_rows) - 1)

C6_MissingHeaderAborts ==
    Finished =>
        /\ (\A n \in RowsFrom(0) : ~IsTable1Header(impl, Row(normalized_rows, n)))
               => (Raised /\ error = ErrTable1Header /\ result = NoResult)
        /\ (i # None /\ \A n \in RowsFrom(i) : ~IsTable2Header(Row(normalized_rows, n)))
               => (Raised /\ error = ErrTable2Header /\ result = NoResult)
        /\ (r_idx # None /\ \A n \in RowsFrom(r_idx) : ~IsTable3Header(Row(normalized_rows, n)))
               => (Raised /\ error = ErrTable3Header /\ result = NoResult)
        /\ Raised => result = NoResult

\* The Table 3 header is missing after Table 1 and Table 2 were extracted
\* with records in them.
C6_Witness ==
    /\ Raised
    /\ error = ErrTable3Header
    /\ Len(df1.records) > 0
    /\ Len(df2.records) > 0
    /\ result = NoResult

(***************************************************************************)
(* C7.  As claimed: on a successful parse the ratio cell of every record   *)
(* of Table 2, of Table 3 and of the merged table is the empty string.     *)
(***************************************************************************)
RatioColumn(df) == [n \in 1 .. Len(df.records) |-> df.records[n][6]]

C7_RatioAlwaysEmpty ==
    Returned =>
        \A df \in {Out.df2, Out.df3, Out.df2_plus_df3} :
            \A n \in 1 .. Len(df.records) : RatioColumn(df)[n] = EmptyStr

(***************************************************************************)
(* C7, amended.  On a successful parse the ratio cell of every Table 2     *)
(* record is the empty string; the ratio cell of a Table 3 record is the   *)
(* cell at raw position 3 of its body row, or the empty string when the    *)
(* row has fewer than four cells; the merged table carries both unchanged. *)
(***************************************************************************)
C7_RatioCopiedNeverComputed ==
    Returned =>
        /\ \A n \in 1 .. Len(Out.df2.records) : RatioColumn(Out.df2)[n] = EmptyStr
        /\ \A n \in 1 .. Len(Out.df3.records) :
               LET src == Row(normalized_rows, idx_table3_header + n)
               IN  RatioColumn(Out.df3)[n] = IF Len(src) >= 4 THEN src[4] ELSE EmptyStr
        /\ RatioColumn(Out.df2_plus_df3) = RatioColumn(Out.df2) \o RatioColumn(Out.df3)

\* A successful parse with a Table 2 record from a row of six or more cells
\* and a Table 3 record whose ratio cell is not empty.
C7_Witness ==
    /\ Returned
    /\ \E n \in Table2Body : Len(Row(normalized_rows, n)) >= 6
    /\ \E n \in 1 .. Len(Out.df3.records) : RatioColumn(Out.df3)[n] # EmptyStr

(***************************************************************************)
(* C8.  As claimed: on a successful parse the column names of Table 1, of  *)
(* Table 2, of Table 3 and of the merged table are pairwise distinct.      *)
(***************************************************************************)
Distinct(s) == \A m, n \in 1 .. Len(s) : s[m] = s[n] => m = n

C8_ColumnNamesDistinct ==
    Returned =>
        /\ Distinct(Out.df1.columns)
        /\ Distinct(Out.df2.columns)
        /\ Distinct(Out.df3.columns)
        /\ Distinct(Out.df2_plus_df3.columns)

(***************************************************************************)
(* C8, amended.  On a successful parse the column names of Table 2, of     *)
(* Table 3 and of the merged table are pairwise distinct; the Table 1      *)
(* column list is the header row right-padded with empty names, and holds  *)
(* a name twice exactly when the header row repeats a cell or the padded   *)
(* list holds two or more empty names.                                     *)
(***************************************************************************)
EmptyNames(s) == {n \in 1 .. Len(s) : s[n] = EmptyStr}

C8_ColumnNamesDistinctButTable1 ==
    Returned =>
        LET hdr == Row(normalized_rows, idx_table1_header)
            padding == Len(Out.df1.columns) - Len(hdr)
        IN  /\ Distinct(Out.df2.columns)
            /\ Distinct(Out.df3.columns)
            /\ Distinct(Out.df2_plus_df3.columns)
            /\ IsRightPaddingOf(Out.df1.columns, hdr)
            /\ Distinct(Out.df1.columns) <=>
                   (Distinct(hdr) /\ Cardinality(EmptyNames(hdr)) + padding <= 1)

\* A successful parse whose header row has no repeated cell and whose
\* Table 1 column list holds the empty name twice, from the padding.
C8_Witness ==
    /\ Returned
    /\ Distinct(Row(normalized_rows, idx_table1_header))
    /\ Cardinality(EmptyNames(Out.df1.columns)) >= 2

(***************************************************************************)
(* C9.  The Table 1 header is the lowest-index row with a cell equal to    *)
(* "taxon" and a cell equal to "station", compared whole and without       *)
(* regard to case; when no row is such, no header is chosen.               *)
(***************************************************************************)
HasCellEqual(row, tok) == \E n \in 1 .. Len(row) : Lower(row[n]) = tok

ExactHeaderRows ==
    {n \in RowsFrom(0) :
        /\ HasCellEqual(Row(normalized_rows, n), <<"t", "a", "x", "o", "n">>)
        /\ HasCellEqual(Row(normalized_rows, n), <<"s", "t", "a", "t", "i", "o", "n">>)}

C9_HeaderIsFirstExactMatch ==
    pc \notin {"normalize", "find_table1"} =>
        IF ExactHeaderRows = {}
        THEN idx_table1_header = None
        ELSE /\ idx_table1_header \in ExactHeaderRows
             /\ \A n \in ExactHeaderRows : idx_table1_header <= n

(***************************************************************************)
(* C10.  Table 1 stops at the first row after the header with a cell that  *)
(* contains "phyto" and a cell that contains "diversity:" (colon           *)
(* included), without regard to case, or at the end of the document; the   *)
(* stop index is the Table 1 resume index.                                 *)
(***************************************************************************)
HasCellContaining(row, tok) == \E n \in 1 .. Len(row) : Contains(tok, Lower(row[n]))

ColonStopRows ==
    {n \in RowsFrom(idx_table1_header + 1) :
        /\ HasCellContaining(Row(normalized_rows, n), <<"p", "h", "y", "t", "o">>)
        /\ HasCellContaining(Row(normalized_rows, n),
                             <<"d", "i", "v", "e", "r", "s", "i", "t", "y", ":">>)}

C10_Table1StopsAtColonSentinel ==
    i # None =>
        IF ColonStopRows = {}
        THEN i = Len(normalized_rows)
        ELSE /\ i \in ColonStopRows
             /\ \A n \in ColonStopRows : i <= n

(***************************************************************************)
(* C11.  The Table 2 column mapping is positional: position 0 -> Alga, a   *)
(* cell equal to "mg/m^3" without regard to case -> mg/m^3, the first cell *)
(* exactly "%" -> mg/m^3_%, every later cell exactly "%" ->                *)
(* Cells-units/L_%, a cell containing "units or cells/l" -> Cells-units/L, *)
(* any other position unmapped.  For every body row and every canonical    *)
(* name the record holds the body row's cell at the rightmost header       *)
(* position mapped to that name, or "" if the row does not reach that      *)
(* position or no position maps to the name.                               *)
(***************************************************************************)
Table2HeaderRow == Row(normalized_rows, idx_table2_header)

\* The canonical name the stated rules give to position p of header row hdr.
MappedName(hdr, p) ==
    LET c == Cell(hdr, p)
    IN  IF p = 0 THEN ColAlga
        ELSE IF Lower(c) = TokMg THEN ColMg
        ELSE IF c = TokPercent
        THEN IF \A q \in 0 .. (p - 1) : Cell(hdr, q) # TokPercent
             THEN ColMgPct ELSE ColCellsUnitsPct
        ELSE IF Contains(TokUnitsOrCells, Lower(c)) THEN ColCellsUnits
        ELSE NoneCell

PositionsOf(hdr, name) == {p \in Indices(hdr) : MappedName(hdr, p) = name}

\* The cell of row at the rightmost position of hdr mapped to name.
RightmostValue(hdr, row, name) ==
    IF PositionsOf(hdr, name) = {} THEN EmptyStr
    ELSE LET p == CHOOSE q \in PositionsOf(hdr, name) :
                      \A o \in PositionsOf(hdr, name) : o <= q
         IN  IF p < Len(row) THEN Cell(row, p) ELSE EmptyStr

C11_Table2MapsRightmostPosition ==
    r_idx # None =>
        /\ header_map = [n \in 1 .. Len(Table2HeaderRow) |->
                            MappedName(Table2HeaderRow, n - 1)]
        /\ \A m \in 1 .. Len(df2.records) :
              df2.records[m] =
                  [c \in 1 .. Len(t2_headers_final) |->
                      RightmostValue(Table2HeaderRow,
                                     Row(normalized_rows, idx_table2_header + m),
                                     t2_headers_final[c])]

\* A header with a repeated "mg/m^3", three "%" cells or a repeated units
\* cell, and a body row that reaches an earlier but not the rightmost
\* position of a name, and a body row that reaches them all.
C11_Witness ==
    /\ Returned
    /\ \E name \in {ColMg, ColCellsUnits, ColCellsUnitsPct} :
        \E p, q \in PositionsOf(Table2HeaderRow, name) :
          /\ p < q
          /\ \E m \in 1 .. Len(Out.df2.records) :
                LET row == Row(normalized_rows, idx_table2_header + m)
                IN  /\ p < Len(row) /\ q >= Len(row)
                    /\ Cell(row, p) # EmptyStr
                    /\ Out.df2.records[m][ColumnIndex(t2_headers_final, name)]
                           = EmptyStr
          /\ \E m \in 1 .. Len(Out.df2.records) :
                LET row == Row(normalized_rows, idx_table2_header + m)
                IN  /\ q < Len(row)
                    /\ Cell(row, p) # Cell(row, q)
                    /\ Out.df2.records[m][ColumnIndex(t2_headers_final, name)]
                           = Cell(row, q)
    /\ \E p \in Indices(Table2HeaderRow) :
          /\ MappedName(Table2HeaderRow, p) = NoneCell
          /\ \E m \in 1 .. Len(Out.df2.records) :
                p < Len(Row(normalized_rows, idx_table2_header + m))

(***************************************************************************)
(* C12.  Table 2 holds exactly one record per row strictly between the     *)
(* Table 2 header and the Table 2 resume index, in document order; the     *)
(* resume index is the first row after the header with a cell containing   *)
(* "====", or the document length if there is none.  The sentinel row      *)
(* gives no record and no body row is filtered out: a fully blank row      *)
(* gives a record of six empty strings.                                    *)
(***************************************************************************)
SentinelRows ==
    {n \in RowsFrom(idx_table2_header + 1) :
        HasCellContaining(Row(normalized_rows, n), <<"=", "=", "=", "=">>)}

AllCellsEmpty(row) == \A n \in 1 .. Len(row) : row[n] = EmptyStr

SixEmptyStrings == [c \in 1 .. 6 |-> EmptyStr]

C12_Table2OneRecordPerBodyRow ==
    r_idx # None =>
        /\ IF SentinelRows = {}
           THEN r_idx = Len(normalized_rows)
           ELSE r_idx \in SentinelRows /\ \A n \in SentinelRows : r_idx <= n
        /\ Len(df2.records) = r_idx - (idx_table2_header + 1)
        /\ \A m \in 1 .. Len(df2.records) :
              LET row == Row(normalized_rows, idx_table2_header + m)
              IN  /\ df2.records[m][1] = CellOrEmpty(row, 0)
                  /\ AllCellsEmpty(row) => df2.records[m] = SixEmptyStrings

\* A successful parse whose Table 2 body has a blank row with cells, or an
\* empty row, next to a row with an alga, and whose sentinel cell only
\* contains "====".
C12_Witness ==
    /\ Returned
    /\ Len(Out.df2.records) = 2
    /\ \E m, n \in Table2Body :
          /\ AllCellsEmpty(Row(normalized_rows, m))
          /\ Row(normalized_rows, m) # <<>>
          /\ ~AllCellsEmpty(Row(normalized_rows, n))
    /\ SixEmptyStrings \in {Out.df2.records[m] : m \in 1 .. 2}
    /\ r_idx < Len(normalized_rows)
    /\ \A c \in 1 .. Len(Row(normalized_rows, r_idx)) :
          Cell(Row(normalized_rows, r_idx), c - 1) # <<"=", "=", "=", "=">>

(***************************************************************************)
(* C13.  Table 3 holds exactly one record per row from the Table 3 header  *)
(* index + 1 up to, not including, the first row all of whose cells are    *)
(* empty (an empty row included) or the end of the document.  Each record  *)
(* is [c0, c1, "", c2, "", c3], ci the body row's cell at raw position i   *)
(* or "" when the row has no position i, wherever "mg/m^3",                *)
(* "Cells-units/L" and "ratio" stand in the header row; cells at           *)
(* positions 4 and beyond are dropped.                                     *)
(***************************************************************************)
Table3EndRows ==
    {n \in RowsFrom(idx_table3_header + 1) : AllCellsEmpty(Row(normalized_rows, n))}

RawCell(row, p) == IF p < Len(row) THEN row[p + 1] ELSE EmptyStr

C13_Table3RecordsByRawPosition ==
    k # None =>
        /\ IF Table3EndRows = {}
           THEN k = Len(normalized_rows)
           ELSE k \in Table3EndRows /\ \A n \in Table3EndRows : k <= n
        /\ Len(df3.records) = k - (idx_table3_header + 1)
        /\ \A m \in 1 .. Len(df3.records) :
              LET row == Row(normalized_rows, idx_table3_header + m)
              IN  df3.records[m] = <<RawCell(row, 0), RawCell(row, 1), EmptyStr,
                                     RawCell(row, 2), EmptyStr, RawCell(row, 3)>>

\* A successful parse whose Table 3 header has "ratio" at position 1, whose
\* body has a row of five cells and ends at an empty row followed by a
\* non-empty row.
C13_Witness ==
    /\ Returned
    /\ Lower(Cell(Row(normalized_rows, idx_table3_header), 1)) = TokRatio
    /\ \E n \in Table3Body : Len(Row(normalized_rows, n)) > 4
    /\ k + 1 < Len(normalized_rows)
    /\ Row(normalized_rows, k) = <<>>
    /\ ~AllCellsEmpty(Row(normalized_rows, k + 1))
    /\ Len(Out.df3.records) = k - (idx_table3_header + 1)

(***************************************************************************)
(* C14.  The scan cursors only move forward.  On every successful parse    *)
(* Table1Header < Table1Resume <= Table2Header < Table2Resume <=           *)
(* Table3Header < Table3End <= document length; each header search starts  *)
(* exactly at the resume index of the phase before; no row index gives     *)
(* body records to more than one table; a row that matches the Table 2 or  *)
(* Table 3 header test and lies before the stop row of the section before  *)
(* is never selected as that header.                                       *)
(***************************************************************************)
Table2HeaderRows == {n \in RowsFrom(0) : IsTable2Header(Row(normalized_rows, n))}

Table3HeaderRows == {n \in RowsFrom(0) : IsTable3Header(Row(normalized_rows, n))}

\* x is the least element of S that is not below start.
IsFirstFrom(x, S, start) ==
    /\ x \in S
    /\ x >= start
    /\ \A n \in S : n >= start => x <= n

C14_CursorsMoveForward ==
    Returned =>
        /\ 0 <= idx_table1_header
        /\ idx_table1_header < i
        /\ i <= idx_table2_header
        /\ idx_table2_header < r_idx
        /\ r_idx <= idx_table3_header
        /\ idx_table3_header < k
        /\ k <= Len(normalized_rows)
        /\ IsFirstFrom(idx_table2_header, Table2HeaderRows, i)
        /\ IsFirstFrom(idx_table3_header, Table3HeaderRows, r_idx)
        /\ Table1Candidates \cap Table2Body = {}
        /\ Table1Candidates \cap Table3Body = {}
        /\ Table2Body \cap Table3Body = {}
        /\ Len(Out.df1.records) <= Cardinality(Table1Candidates)
        /\ Len(Out.df2.records) = Cardinality(Table2Body)
        /\ Len(Out.df3.records) = Cardinality(Table3Body)

\* A successful parse with a Table 2 header row inside the Table 1 body, a
\* Table 3 header row inside the Table 2 body, and both stop rows selected
\* as the next header.
C14_Witness ==
    /\ Returned
    /\ Table1Candidates \cap Table2HeaderRows # {}
    /\ Table2Body \cap Table3HeaderRows # {}
    /\ idx_table2_header = i
    /\ idx_table3_header = r_idx
    /\ Table3Body # {}

(***************************************************************************)
(* C15.  The "or end of document" resume points never lead to a successful *)
(* parse.  If no row after the Table 1 header is a Phyto/Diversity: stop   *)
(* row, the Table 1 resume index is the document length and the parse      *)
(* fails with the Table 2 missing-header error; if no row after the Table  *)
(* 2 header has a cell containing "====", the Table 2 resume index is the  *)
(* document length and the parse fails with the Table 3 missing-header     *)
(* error.  Every successful parse has both sentinel rows.                  *)
(***************************************************************************)
C15_EndOfDocumentResumeFails ==
    /\ (i # None /\ ColonStopRows = {}) => i = Len(normalized_rows)
    /\ (Finished /\ idx_table1_header # None /\ ColonStopRows = {}) =>
            Raised /\ error = ErrTable2Header
    /\ (r_idx # None /\ SentinelRows = {}) => r_idx = Len(normalized_rows)
    /\ (Finished /\ idx_table2_header # None /\ SentinelRows = {}) =>
            Raised /\ error = ErrTable3Header
    /\ Returned => ColonStopRows # {} /\ SentinelRows # {}

=============================================================================
